---- MODULE Spec2Model ----
(***************************************************************************)
(* State-machine model of lmdeploy/pytorch/check_env/__init__.py: the      *)
(* pre-flight environment validator of the PyTorch engine.                 *)
(*                                                                         *)
(* One run of the module is one call of an entry point (check_env,         *)
(* check_env_triton, check_model, check_adapters).  The external           *)
(* collaborators (torch, triton, transformers, peft, awq, dlinfer,         *)
(* lmdeploy.pytorch.config, lmdeploy.utils) are the environment: what they *)
(* return or raise is chosen with \E inside the probe that calls them.     *)
(* A run ends in one of three ways: the entry point returns, the           *)
(* Diagnostic Reporter calls exit(1), or an exception leaves the entry     *)
(* point.                                                                  *)
(***************************************************************************)
EXTENDS Integers, Sequences, FiniteSets, TLC

\* ------------------------------------------------------------------ bounds
\* Longest failure text of a collaborator's exception, in words.
MaxTextLen == 3
\* Largest patch number of an installed or declared version.
MaxPatch == 2
\* Longest adapter_paths list handed to check_adapters.
MaxAdapters == 2

\* ------------------------------------------------------------ failure text
\* A failure text is a sequence of words; Python's `sub in text` on strings
\* is "sub occurs as a contiguous run of text".
Words == {"image", "invalid", "unexpected", "keyword"}

Texts == UNION {[1..n -> Words] : n \in 0..MaxTextLen}

\* Texts used where the code never inspects the text.
PlainTexts == {<<>>, <<"invalid">>}

\* 'device kernel image is invalid'
ptxas_error == <<"image", "invalid">>

\* 'got an unexpected keyword argument'
unexpected_keyword == <<"unexpected", "keyword">>

\* str.__contains__: `sub in text`
Contains(sub, text) ==
    \E i \in 0..(Len(text) - Len(sub)) : SubSeq(text, i + 1, i + Len(sub)) = sub

\* One positional argument of an exception: a text, or a non-text value
\* (an errno, as in OSError(21, 'Is a directory')).
StrArg(t) == [kind |-> "str", val |-> t]

IntArg == [kind |-> "int", val |-> <<>>]

\* e.args of the exceptions a collaborator raises: (), (text,) or (number,)
ArgLists(texts) == {<<>>, <<IntArg>>} \cup {<<StrArg(t)>> : t \in texts}

\* RuntimeError and AssertionError are the classes the except clauses name;
\* ImportError and OSError stand for every other subclass of Exception.
ExcTypes == {"RuntimeError", "AssertionError", "ImportError", "OSError"}

Exceptions(texts) == [type : ExcTypes, args : ArgLists(texts)]

\* `x in e.args[0]` raises TypeError when e.args[0] is a number
NotIterable(arg) == arg.kind # "str"

TypeErrorNotIterable == [type |-> "TypeError", args |-> <<StrArg(<<"not_iterable">>)>>]

UnboundLocalError == [type |-> "UnboundLocalError", args |-> <<StrArg(<<"model_config">>)>>]

InvalidVersion == [type |-> "InvalidVersion", args |-> <<StrArg(<<"invalid">>)>>]

\* str(e): the text of the failure (a number holds none of the words)
FailureText(e) ==
    IF Len(e.args) = 0 \/ e.args[1].kind # "str" THEN <<>> ELSE e.args[1].val

\* ---------------------------------------------------------------- versions
\* A version string is its release numbers and its stage: "2.3.1" is
\* (<<2,3,1>>, "final"), "4.45.0.dev0" is (<<4,45,0>>, "dev"); a string that
\* is no version has stage "invalid" and version.parse raises on it.
VStr(release, stage) == [release |-> release, stage |-> stage]

NotAVersion == VStr(<<>>, "invalid")

RECURSIVE StripZeros(_)
\* packaging.version._cmpkey: trailing zeros of the release are dropped
StripZeros(r) ==
    IF Len(r) > 0 /\ r[Len(r)] = 0 THEN StripZeros(SubSeq(r, 1, Len(r) - 1)) ELSE r

RECURSIVE TupleLess(_, _)
\* Python's tuple comparison a < b
TupleLess(a, b) ==
    IF Len(b) = 0 THEN FALSE
    ELSE IF Len(a) = 0 THEN TRUE
    ELSE IF a[1] # b[1] THEN a[1] < b[1]
    ELSE TupleLess(Tail(a), Tail(b))

\* a development release sorts before the final release of the same number
StageRank(stage) == IF stage = "dev" THEN 0 ELSE 1

\* packaging.version.Version.__lt__
VersionLT(a, b) ==
    LET ra == StripZeros(a.release)
        rb == StripZeros(b.release)
    IN  \/ TupleLess(ra, rb)
        \/ ra = rb /\ StageRank(a.stage) < StageRank(b.stage)

VersionEQ(a, b) ==
    /\ StripZeros(a.release) = StripZeros(b.release)
    /\ StageRank(a.stage) = StageRank(b.stage)

VersionGT(a, b) == VersionLT(b, a)

VersionLE(a, b) == VersionLT(a, b) \/ VersionEQ(a, b)

VersionGE(a, b) == VersionLE(b, a)

MAX_TRITON_VERSION == VStr(<<3, 0, 0>>, "final")

TRITON_VER_231 == VStr(<<2, 3, 1>>, "final")

MIN_TRANSFORMERS_VERSION == VStr(<<4, 33, 0>>, "final")

MAX_TRANSFORMERS_VERSION == VStr(<<4, 44, 1>>, "final")

Stages == {"dev", "final"}

\* triton.__version__ as the environment may report it
TritonVersionStrs ==
    {VStr(<<2, 3, p>>, s) : p \in 0..MaxPatch, s \in Stages}
        \cup {VStr(<<3, 0, p>>, s) : p \in 0..MaxPatch, s \in Stages}
        \cup {VStr(<<3, 0>>, "final"), VStr(<<2, 3, 1, 0>>, "final"),
              VStr(<<3, 1, 0>>, "final"), NotAVersion}

\* transformers.__version__ as the environment may report it
TransVersionStrs ==
    {VStr(<<4, mi, p>>, s) : mi \in {33, 44}, p \in 0..MaxPatch, s \in Stages}
        \cup {VStr(<<4, 32, 9>>, "final"), VStr(<<4, 33>>, "final"),
              VStr(<<4, 50, 0>>, "final"), NotAVersion}

\* config.transformers_version as a model's config.json may declare it
DeclaredVersionStrs ==
    {VStr(<<4, 44, p>>, "final") : p \in 0..MaxPatch}
        \cup {VStr(<<4, 33>>, "final"), VStr(<<4, 50, 0>>, "final"),
              VStr(<<4, 44, 1>>, "dev"), NotAVersion}

\* ------------------------------------------------------------------- state
VARIABLES
    pc,             \* the probe about to run ("idle" before the call)
    status,         \* "running", "returned", "exited" (exit(1)), "raised"
    exit_calls,     \* the statuses exit() was called with
    raised,         \* the exception that left the entry point, if any
    log,            \* the log lines emitted, in order
    reports,        \* the invocations of _handle_exception: e, mod_name, message
    caught,         \* the exceptions the probes' except clauses caught
    started,        \* the probes that started, in order
    device_type,    \* the entry point's device argument
    triton_version, \* check_env_triton's local, <<>> while unbound
    device_cap,     \* check_env_triton's device_cap[0], <<>> while unbound
    trans_version,  \* check_transformers_version's local, <<>> while unbound
    config,         \* the loaded hf config, <<>> while unbound
    model_dtype,    \* model_config.dtype, <<>> while unbound
    supported,      \* what is_bf16_supported returned, <<>> while not called
    adapter_paths,  \* how many adapter paths were handed in
    path_index      \* the adapter path check_adapters is at

vars == <<pc, status, exit_calls, raised, log, reports, caught, started,
          device_type, triton_version, device_cap, trans_version, config,
          model_dtype, supported, adapter_paths, path_index>>

env_locals == <<triton_version, device_cap>>

model_locals == <<trans_version, config, model_dtype, supported>>

adapter_locals == <<adapter_paths, path_index>>

DeviceTypes == {"cuda", "ascend", "cpu"}

deeplink_device_type_list == {"ascend", "npu", "maca"}

Line(level, kind) == [level |-> level, kind |-> kind]

\* A remediation message: its parts, and the versions it names.
Msg(parts, names) == [parts |-> parts, names |-> names]

\* message=None
NoMessage == Msg(<<>>, <<>>)

\* 'Please ensure it has been installed correctly.'
DefaultMessage == Msg(<<"ensure_installed_correctly">>, <<>>)

Init ==
    /\ pc = "idle"
    /\ status = "running"
    /\ exit_calls = <<>>
    /\ raised = <<>>
    /\ log = <<>>
    /\ reports = <<>>
    /\ caught = <<>>
    /\ started = <<>>
    /\ device_type = "unset"
    /\ triton_version = <<>>
    /\ device_cap = <<>>
    /\ trans_version = <<>>
    /\ config = <<>>
    /\ model_dtype = <<>>
    /\ supported = <<>>
    /\ adapter_paths = 0
    /\ path_index = 0

\* ------------------------------------------------------ Diagnostic Reporter
\* The three lines _handle_exception logs, in the order it logs them.
ReporterLines ==
    <<Line("debug", "exception_detail"),
      Line("error", "failure_summary"),
      Line("error", "framed_remediation")>>

\* _handle_exception(e, mod_name, logger, message) called after the probe
\* logged `lines`: log, log, log, exit(1).  exit raises SystemExit, which no
\* `except Exception` of the module catches: the run is over.
_handle_exception(lines, e, mod_name, message) ==
    /\ log' = log \o lines \o ReporterLines
    /\ reports' = Append(reports,
            [e |-> e, mod_name |-> mod_name,
             message |-> IF message = NoMessage THEN DefaultMessage ELSE message])
    /\ exit_calls' = Append(exit_calls, 1)
    /\ status' = "exited"
    /\ pc' = "done"
    /\ raised' = raised

\* An exception raised where no handler of the module catches it.
Propagate(lines, e) ==
    /\ log' = log \o lines
    /\ raised' = Append(raised, e)
    /\ status' = "raised"
    /\ pc' = "done"
    /\ UNCHANGED <<reports, exit_calls>>

\* The probe ran to its end: control goes to `next`.
Continue(lines, next) ==
    /\ log' = log \o lines
    /\ pc' = next
    /\ status' = IF next = "done" THEN "returned" ELSE "running"
    /\ UNCHANGED <<raised, reports, exit_calls>>

\* ---------------------------------------------------------------- check_env
\* check_env(device_type): the info line, then the three probes in turn.
check_env ==
    /\ pc = "idle" /\ status = "running"
    /\ started' = Append(started, "check_env")
    /\ device_type' \in DeviceTypes
    /\ Continue(<<Line("info", "checking_environment")>>, "check_env_deeplink")
    /\ UNCHANGED <<caught, env_locals, model_locals, adapter_locals>>

\* Where check_env goes after check_env_torch.
AfterTorch == IF device_type = "cuda" THEN "check_env_triton" ELSE "done"

\* check_env_deeplink / try_import_deeplink: import dlinfer for its devices.
check_env_deeplink ==
    /\ pc = "check_env_deeplink" /\ status = "running"
    /\ started' = Append(started, "check_env_deeplink")
    /\ IF device_type \in deeplink_device_type_list
       THEN \/ /\ Continue(<<>>, "check_env_torch")
               /\ caught' = caught
            \/ \E e \in Exceptions(PlainTexts) :
                  /\ caught' = Append(caught, e)
                  /\ _handle_exception(<<>>, e, "PyTorch", NoMessage)
       ELSE /\ Continue(<<>>, "check_env_torch")
            /\ caught' = caught
    /\ UNCHANGED <<device_type, env_locals, model_locals, adapter_locals>>

\* check_env_torch: the tensor addition on the accelerator.
check_env_torch ==
    /\ pc = "check_env_torch" /\ status = "running"
    /\ started' = Append(started, "check_env_torch")
    /\ LET lines == <<Line("debug", "checking_pytorch")>>
       IN  \/ /\ Continue(lines, AfterTorch)
              /\ caught' = caught
           \/ \E e \in Exceptions(PlainTexts) :
                 /\ caught' = Append(caught, e)
                 /\ _handle_exception(lines, e, "PyTorch", NoMessage)
    /\ UNCHANGED <<device_type, env_locals, model_locals, adapter_locals>>

\* -------------------------------------------------------- check_env_triton
\* 'Please ensure that your device is functioning properly with <Triton>...'
TritonGenericMessage == Msg(<<"verify_your_environment">>, <<>>)

\* 'This Error might caused by mismatching between NVIDIA Driver and nvcc...'
TritonMismatchMessage == Msg(<<"driver_compiler_mismatch">>, <<>>)

\* Faulty variant: the maximum-tested bound written with >= for >.
TritonTooNew_inclusive(v) == VersionGE(v, MAX_TRITON_VERSION)

\* triton_version > version.parse(MAX_TRITON_VERSION)
TritonTooNew(v) == VersionGT(v, MAX_TRITON_VERSION)

\* The two except clauses' test of the failure: the RuntimeError clause with
\* a first argument holding the ptxas signature.
IsPtxasError(e) ==
    /\ e.type = "RuntimeError"
    /\ Len(e.args) > 0
    /\ Contains(ptxas_error, e.args[1].val)

\* msg as the except clauses leave it
TritonRemediation(e) ==
    IF IsPtxasError(e) THEN TritonMismatchMessage ELSE TritonGenericMessage

\* except RuntimeError / except Exception of check_env_triton.  The test
\* `ptxas_error in e.args[0]` runs inside the RuntimeError clause: when it
\* raises, the TypeError leaves the function (the sibling clause
\* does not catch what a clause raises).
TritonExcept(lines, e) ==
    /\ caught' = Append(caught, e)
    /\ IF e.type = "RuntimeError" /\ Len(e.args) > 0 /\ NotIterable(e.args[1])
       THEN Propagate(lines, TypeErrorNotIterable)
       ELSE _handle_exception(lines, e, "Triton", TritonRemediation(e))

\* check_env_triton(device) called on its own.
call_check_env_triton ==
    /\ pc = "idle" /\ status = "running"
    /\ started' = started
    /\ device_type' \in DeviceTypes
    /\ Continue(<<>>, "check_env_triton")
    /\ UNCHANGED <<caught, env_locals, model_locals, adapter_locals>>

\* check_env_triton, the try block: the version bound and the custom-kernel
\* smoke test.
check_env_triton ==
    /\ pc = "check_env_triton" /\ status = "running"
    /\ started' = Append(started, "check_env_triton")
    /\ LET lines == <<Line("debug", "checking_triton")>>
       IN  \/ \E e \in Exceptions(Texts) :          \* import torch, import triton
                 /\ TritonExcept(lines, e)
                 /\ triton_version' = triton_version
           \/ /\ TritonExcept(lines, InvalidVersion)  \* version.parse raises
              /\ triton_version' = triton_version
           \/ \E vs \in TritonVersionStrs \ {NotAVersion} :
                 LET warned == IF TritonTooNew(vs)
                               THEN lines \o <<Line("warning", "triton_not_tested")>>
                               ELSE lines
                 IN  /\ triton_version' = <<vs>>
                     /\ \/ /\ Continue(warned, "check_env_triton_capability")
                           /\ caught' = caught
                        \/ \E e \in Exceptions(Texts) : TritonExcept(warned, e)
    /\ UNCHANGED <<device_type, device_cap, model_locals, adapter_locals>>

\* device_cap[0] as torch.cuda.get_device_capability may report it
Capabilities == {6, 7, 8, 9}

\* RuntimeError('Attention triton kernel does not fully support triton<3.0.0
\* on device with capability<8. ...')
CapabilityError == [type |-> "RuntimeError", args |-> <<StrArg(<<"capability">>)>>]

\* Faulty variant: the capability bound written with < for <=.
CapabilityFatal_below7(cap, v) == cap < 7 /\ VersionLE(v, TRITON_VER_231)

\* device_cap[0] <= 7 and triton_version <= TRITON_VER_231
CapabilityFatal(cap, v) == cap <= 7 /\ VersionLE(v, TRITON_VER_231)

\* check_env_triton, after the try block: the capability check, which runs
\* outside every try.
check_env_triton_capability ==
    /\ pc = "check_env_triton_capability" /\ status = "running"
    /\ started' = Append(started, "check_env_triton_capability")
    /\ caught' = caught
    /\ IF device_type = "cuda"
       THEN \/ \E e \in Exceptions(PlainTexts) :    \* get_device_capability raises
                  /\ Propagate(<<>>, e)
                  /\ device_cap' = device_cap
            \/ \E cap \in Capabilities :
                  /\ device_cap' = <<cap>>
                  /\ IF CapabilityFatal(cap, triton_version[1])
                     THEN _handle_exception(<<>>, CapabilityError, "Triton", NoMessage)
                     ELSE Continue(<<>>, "done")
       ELSE /\ Continue(<<>>, "done")
            /\ device_cap' = device_cap
    /\ UNCHANGED <<device_type, triton_version, model_locals, adapter_locals>>

\* -------------------------------------------------------------- check_model
\* Faulty variant: the dtype check called before the per-model version check.
SubcheckOrder_swapped ==
    <<"__check_transformers_version", "__check_config",
      "__check_model_dtype_support", "__check_model_transformers_version",
      "check_awq">>

\* The calls of check_transformers_version's body, in the order it makes them.
SubcheckOrder ==
    <<"__check_transformers_version", "__check_config",
      "__check_model_transformers_version", "__check_model_dtype_support",
      "check_awq">>

\* Where control goes when sub-check `name` returns.
AfterSubcheck(name) ==
    LET i == CHOOSE k \in 1..Len(SubcheckOrder) : SubcheckOrder[k] = name
    IN  IF i = Len(SubcheckOrder) THEN "done" ELSE SubcheckOrder[i + 1]

\* check_model(model_path, trust_remote_code, dtype, device_type): the info
\* line, then check_transformers_version.
check_model ==
    /\ pc = "idle" /\ status = "running"
    /\ started' = Append(started, "check_model")
    /\ device_type' \in DeviceTypes
    /\ Continue(<<Line("info", "checking_model")>>, SubcheckOrder[1])
    /\ UNCHANGED <<caught, env_locals, model_locals, adapter_locals>>

\* Faulty variant: the upper bound written with >= for >.
TransformersOutOfRange_exclusive(v) ==
    VersionLT(v, MIN_TRANSFORMERS_VERSION) \/ VersionGE(v, MAX_TRANSFORMERS_VERSION)

\* trans_version < min_version or trans_version > max_version
TransformersOutOfRange(v) ==
    VersionLT(v, MIN_TRANSFORMERS_VERSION) \/ VersionGT(v, MAX_TRANSFORMERS_VERSION)

__check_transformers_version ==
    /\ pc = "__check_transformers_version" /\ status = "running"
    /\ started' = Append(started, "__check_transformers_version")
    /\ LET lines == <<Line("debug", "checking_transformers_version")>>
       IN  \/ \E e \in Exceptions(PlainTexts) \cup {InvalidVersion} :
                 /\ caught' = Append(caught, e)
                 /\ _handle_exception(lines, e, "transformers", NoMessage)
                 /\ trans_version' = trans_version
           \/ \E vs \in TransVersionStrs \ {NotAVersion} :
                 /\ trans_version' = <<vs>>
                 /\ caught' = caught
                 /\ Continue(IF TransformersOutOfRange(vs)
                             THEN lines \o <<Line("warning", "transformers_out_of_range")>>
                             ELSE lines,
                             AfterSubcheck("__check_transformers_version"))
    /\ UNCHANGED <<device_type, env_locals, config, model_dtype, supported, adapter_locals>>

\* config.transformers_version (<<>> when the attribute is missing) and
\* config.quantization_config['quant_method']
Configs ==
    [transformers_version : {<<>>} \cup {<<vs>> : vs \in DeclaredVersionStrs},
     quant_method : {"none", "awq", "gptq"}]

__check_config ==
    /\ pc = "__check_config" /\ status = "running"
    /\ started' = Append(started, "__check_config")
    /\ LET lines == <<Line("debug", "checking_autoconfig")>>
       IN  \/ \E e \in Exceptions(PlainTexts) :
                 /\ caught' = Append(caught, e)
                 /\ _handle_exception(lines, e, "transformers",
                                      Msg(<<"load_config_failed">>, trans_version))
                 /\ config' = config
           \/ \E c \in Configs :
                 /\ config' = <<c>>
                 /\ caught' = caught
                 /\ Continue(lines, AfterSubcheck("__check_config"))
    /\ UNCHANGED <<device_type, env_locals, trans_version, model_dtype, supported,
                   adapter_locals>>

AssertionError(text) == [type |-> "AssertionError", args |-> <<StrArg(<<text>>)>>]

\* Faulty variant: the assert written with > for >=.
ModelVersionOk_strict(installed, required) == VersionGT(installed, required)

\* assert trans_version >= model_trans_version
ModelVersionOk(installed, required) == VersionGE(installed, required)

\* 'model `...` requires transformers version {model_trans_version} but
\* transformers {trans_version} is installed.'
VersionMismatchMessage(required, installed) ==
    Msg(<<"requires_version", "but_installed">>, <<required, installed>>)

__check_model_transformers_version ==
    /\ pc = "__check_model_transformers_version" /\ status = "running"
    /\ started' = Append(started, "__check_model_transformers_version")
    /\ LET lines == <<Line("debug", "checking_required_version")>>
           declared == config[1].transformers_version
           installed == trans_version[1]
       IN  IF declared = <<>>
           THEN /\ Continue(lines, AfterSubcheck("__check_model_transformers_version"))
                /\ caught' = caught
           ELSE IF declared[1] = NotAVersion
           THEN /\ caught' = Append(caught, InvalidVersion)
                /\ _handle_exception(lines, InvalidVersion, "transformers",
                                     VersionMismatchMessage(declared[1], installed))
           ELSE IF ~ModelVersionOk(installed, declared[1])
           THEN /\ caught' = Append(caught, AssertionError("version_mismatch"))
                /\ _handle_exception(lines, AssertionError("version_mismatch"),
                                     "transformers",
                                     VersionMismatchMessage(declared[1], installed))
           ELSE /\ Continue(lines, AfterSubcheck("__check_model_transformers_version"))
                /\ caught' = caught
    /\ UNCHANGED <<device_type, env_locals, model_locals, adapter_locals>>

\* model_config.dtype as ModelConfig.from_hf_config may derive it
Dtypes == {"bfloat16", "float16", "float32"}

\* 'Your device does not support `{model_config.dtype}`. You can set `dtype`
\* to float16 ... Note that this might have negative effect!'
DtypeMessage == Msg(<<"device_does_not_support", "set_dtype_float16", "negative_effect">>, <<>>)

\* ('Checking failed with error {e}', 'Please send issue to LMDeploy ...')
CheckingFailedMessage == Msg(<<"checking_failed", "send_issue">>, <<>>)

\* Faulty variant: the assert on is_bf16_supported left out.
DtypeOk_unchecked(dtype, bf16_supported) == TRUE

\* assert is_bf16_supported(device_type): whether the assert is reached and
\* what it is given decide whether the dtype passes.
DtypeOk(dtype, bf16_supported) == dtype = "bfloat16" => bf16_supported

\* The except clauses of __check_model_dtype_support.  `bound` is whether
\* model_config was assigned before e was raised: the AssertionError clause
\* formats model_config.dtype into its message.
DtypeExcept(lines, e, bound) ==
    /\ caught' = Append(caught, e)
    /\ IF e.type = "AssertionError"
       THEN IF bound
            THEN _handle_exception(lines, e, "Model", DtypeMessage)
            ELSE Propagate(lines, UnboundLocalError)
       ELSE _handle_exception(lines, e, "Model", CheckingFailedMessage)

__check_model_dtype_support ==
    /\ pc = "__check_model_dtype_support" /\ status = "running"
    /\ started' = Append(started, "__check_model_dtype_support")
    /\ LET lines == <<Line("debug", "checking_dtype_support")>>
       IN  \/ \E e \in Exceptions(PlainTexts) :       \* from_hf_config raises
                 /\ DtypeExcept(lines, e, FALSE)
                 /\ UNCHANGED <<model_dtype, supported>>
           \/ \E dt \in Dtypes :
                 /\ model_dtype' = <<dt>>
                 /\ IF dt = "bfloat16"
                    THEN \/ \E e \in Exceptions(PlainTexts) :  \* is_bf16_supported raises
                               /\ DtypeExcept(lines, e, TRUE)
                               /\ supported' = supported
                         \/ \E sup \in BOOLEAN :
                               /\ supported' = <<sup>>
                               /\ IF DtypeOk(dt, sup)
                                  THEN /\ Continue(lines, AfterSubcheck("__check_model_dtype_support"))
                                       /\ caught' = caught
                                  ELSE DtypeExcept(lines, AssertionError("bf16_not_supported"), TRUE)
                    ELSE /\ Continue(lines, AfterSubcheck("__check_model_dtype_support"))
                         /\ UNCHANGED <<caught, supported>>
    /\ UNCHANGED <<device_type, env_locals, trans_version, config, adapter_locals>>

\* check_awq(hf_config, device_type)
check_awq ==
    /\ pc = "check_awq" /\ status = "running"
    /\ started' = Append(started, "check_awq")
    /\ IF device_type = "cuda" /\ config[1].quant_method = "awq"
       THEN \/ \E e \in Exceptions(PlainTexts) :       \* import awq
                  /\ caught' = Append(caught, e)
                  /\ _handle_exception(<<>>, e, "autoawq", NoMessage)
            \/ /\ caught' = caught                     \* import awq_ext
               /\ Continue(<<>>, AfterSubcheck("check_awq"))
            \/ \E e \in Exceptions(PlainTexts) :
                  /\ caught' = Append(caught, e)
                  /\ Continue(<<Line("debug", "awq_ext_exception_detail"),
                                Line("warning", "failed_to_import_awq_ext")>>,
                              AfterSubcheck("check_awq"))
       ELSE /\ caught' = caught
            /\ Continue(<<>>, AfterSubcheck("check_awq"))
    /\ UNCHANGED <<device_type, env_locals, model_locals, adapter_locals>>

\* ----------------------------------------------------------- check_adapters
\* 'Please make sure the adapter can be loaded with
\* `peft.PeftConfig.from_pretrained`' (+ 'Or try remove all unexpected
\* keywords in `adapter_config.json`.')
AdapterRemediation(err_msg) ==
    Msg(IF Contains(unexpected_keyword, err_msg)
        THEN <<"load_with_peft", "remove_unexpected_keywords">>
        ELSE <<"load_with_peft">>, <<>>)

\* The except clause of check_adapter: err_msg is '' or e.args[0], and
\* `... in err_msg` runs inside the clause.
AdapterExcept(lines, e) ==
    /\ caught' = Append(caught, e)
    /\ IF Len(e.args) > 0 /\ NotIterable(e.args[1])
       THEN Propagate(lines, TypeErrorNotIterable)
       ELSE _handle_exception(lines, e, "Model",
                AdapterRemediation(IF Len(e.args) = 0 THEN <<>> ELSE e.args[1].val))

\* check_adapters(adapter_paths), up to its loop.
check_adapters ==
    /\ pc = "idle" /\ status = "running"
    /\ started' = Append(started, "check_adapters")
    /\ \E n \in 0..MaxAdapters :
          /\ adapter_paths' = n
          /\ IF n <= 0
             THEN /\ Continue(<<>>, "done")
                  /\ path_index' = path_index
             ELSE /\ Continue(<<Line("info", "checking_adapters")>>, "check_adapter")
                  /\ path_index' = 1
    /\ UNCHANGED <<caught, device_type, env_locals, model_locals>>

\* check_adapter(path) for the path the loop is at.
check_adapter ==
    /\ pc = "check_adapter" /\ status = "running"
    /\ started' = Append(started, "check_adapter")
    /\ LET lines == <<Line("debug", "checking_adapter")>>
       IN  \/ /\ Continue(lines, IF path_index = adapter_paths THEN "done" ELSE "check_adapter")
              /\ path_index' = path_index + 1
              /\ caught' = caught
           \/ \E e \in Exceptions(Texts) :
                 /\ AdapterExcept(lines, e)
                 /\ path_index' = path_index
    /\ UNCHANGED <<device_type, env_locals, model_locals, adapter_paths>>

Next ==
    \/ check_env
    \/ check_env_deeplink
    \/ check_env_torch
    \/ call_check_env_triton
    \/ check_env_triton
    \/ check_env_triton_capability
    \/ check_model
    \/ __check_transformers_version
    \/ __check_config
    \/ __check_model_transformers_version
    \/ __check_model_dtype_support
    \/ check_awq
    \/ check_adapters
    \/ check_adapter

Spec == Init /\ [][Next]_vars

\* ================================================================== claims
Range(seq) == {seq[i] : i \in 1..Len(seq)}

Last(seq) == seq[Len(seq)]

\* The sub-checks of check_model that started, in the order they started.
SubchecksStarted ==
    SelectSeq(started, LAMBDA name :
        name \in {"__check_transformers_version", "__check_config",
                  "__check_model_transformers_version",
                  "__check_model_dtype_support", "check_awq"})

IsPrefix(a, b) == Len(a) <= Len(b) /\ SubSeq(b, 1, Len(a)) = a

Logged(level, kind) == [level |-> level, kind |-> kind] \in Range(log)

Finished == status # "running"

\* The reporter ran: its three lines end the log and exit(1) was called.
FatalDiagnostic ==
    /\ status = "exited"
    /\ exit_calls = <<1>>
    /\ Len(reports) = 1

\* C1: every run ends by the entry point returning or by the reporter
\* terminating the process; no exception leaves a probe.
C1_NoExceptionPropagates ==
    /\ raised = <<>>
    /\ status \in {"running", "returned", "exited"}
    /\ status = "exited" => FatalDiagnostic

\* C2: an invoked reporter has emitted debug detail, error summary and
\* framed remediation, in that order and as the last lines of the log, and
\* has exited with status 1; a finished run that never invoked the reporter
\* returned normally without calling exit.
C2_ReporterTerminates ==
    /\ reports # <<>> =>
          /\ status = "exited"
          /\ exit_calls = <<1>>
          /\ Len(log) >= 3
          /\ SubSeq(log, Len(log) - 2, Len(log)) =
                <<[level |-> "debug", kind |-> "exception_detail"],
                  [level |-> "error", kind |-> "failure_summary"],
                  [level |-> "error", kind |-> "framed_remediation"]>>
    /\ (Finished /\ reports = <<>>) => (status = "returned" /\ exit_calls = <<>>)

\* C3: check_model's sub-checks start in the order version check, config
\* load, per-model version check, dtype check, quantization check; a
\* sub-check starts only while every earlier one ended without a fatal
\* diagnostic, nothing starts after a fatal diagnostic, and a running
\* sequence (warned or not) is at the next sub-check of the order.
C3_SubchecksInOrder ==
    /\ [](/\ IsPrefix(SubchecksStarted,
                      <<"__check_transformers_version", "__check_config",
                        "__check_model_transformers_version",
                        "__check_model_dtype_support", "check_awq">>)
          /\ (Len(started) > 0 /\ started[1] = "check_model" /\ status = "running") =>
                /\ reports = <<>>
                /\ pc = <<"__check_transformers_version", "__check_config",
                          "__check_model_transformers_version",
                          "__check_model_dtype_support", "check_awq">>
                            [Len(SubchecksStarted) + 1])
    /\ [][started' # started => (reports = <<>> /\ raised = <<>> /\ status = "running")]_vars
    /\ [][reports # <<>> => (started' = started /\ log' = log)]_vars

\* Witness of C3: the version check warned and check_awq still started; the
\* whole sequence ran.
C3_Witness ==
    /\ Logged("warning", "transformers_out_of_range")
    /\ Len(SubchecksStarted) = 5
    /\ status = "returned"

\* The per-model version check was the last sub-check to start and is over.
AtRequiredVersionCheck ==
    /\ Len(started) > 0
    /\ Last(started) = "__check_model_transformers_version"
    /\ pc # "__check_model_transformers_version"

\* C4: with a declared version above the installed one the per-model check
\* ends in a fatal diagnostic naming the declared and the installed version
\* and exit(1); with none declared, or one not above the installed one, it
\* emits no diagnostic and the dtype check is next.
C4_RequiredVersion ==
    AtRequiredVersionCheck =>
        LET declared == config[1].transformers_version
            installed == trans_version[1]
        IN  /\ (declared # <<>> /\ declared[1] # NotAVersion
                    /\ VersionLT(installed, declared[1])) =>
                  /\ FatalDiagnostic
                  /\ reports[1].message.names = <<declared[1], installed>>
            /\ (declared = <<>>
                    \/ (declared[1] # NotAVersion /\ ~VersionLT(installed, declared[1]))) =>
                  /\ reports = <<>>
                  /\ status = "running"
                  /\ pc = "__check_model_dtype_support"

\* Witness of C4: declared 4.50.0, installed 4.44.1, fatal.
C4_Witness ==
    /\ AtRequiredVersionCheck
    /\ config[1].transformers_version = <<VStr(<<4, 50, 0>>, "final")>>
    /\ trans_version = <<VStr(<<4, 44, 1>>, "final")>>
    /\ FatalDiagnostic

\* The capability check read the capability of a cuda device.
AtCapabilityCheck ==
    /\ "check_env_triton_capability" \in Range(started)
    /\ device_type = "cuda"
    /\ device_cap # <<>>

CapabilityReported == reports # <<>> /\ reports[1].e = CapabilityError

\* C5: on cuda, after a passing smoke test, the per-hardware fatal
\* diagnostic is emitted iff cap <= 7 and v <= 2.3.1; cap 7 and v 2.3.1
\* trigger it, cap 8 and v 2.3.2 do not.
C5_CapabilityThreshold ==
    AtCapabilityCheck =>
        LET cap == device_cap[1]
            v == triton_version[1]
        IN  /\ CapabilityReported <=> (cap <= 7 /\ VersionLE(v, VStr(<<2, 3, 1>>, "final")))
            /\ CapabilityReported => FatalDiagnostic
            /\ (cap = 7 /\ v = VStr(<<2, 3, 1>>, "final")) => CapabilityReported
            /\ cap = 8 => ~CapabilityReported
            /\ v = VStr(<<2, 3, 2>>, "final") => ~CapabilityReported

\* Witness of C5: cap 7 and compiler 2.3.1, fatal.
C5_Witness ==
    /\ AtCapabilityCheck
    /\ device_cap = <<7>>
    /\ triton_version = <<VStr(<<2, 3, 1>>, "final")>>
    /\ CapabilityReported
    /\ FatalDiagnostic

\* C6 as written: a compiler version equal to 3.0.0 or to 2.3.1 produces
\* neither the warning nor a fatal diagnostic of the comparison.
C6_EqualityCompatible ==
    (triton_version # <<>>
        /\ (VersionEQ(triton_version[1], VStr(<<3, 0, 0>>, "final"))
            \/ VersionEQ(triton_version[1], VStr(<<2, 3, 1>>, "final")))) =>
        /\ ~Logged("warning", "triton_not_tested")
        /\ ~CapabilityReported

\* C6 amended: a compiler version equal to 3.0.0 produces neither the
\* warning nor the per-hardware fatal diagnostic; one equal to 2.3.1
\* produces no warning, and on cuda the per-hardware fatal diagnostic
\* exactly when the capability major version is <= 7.
C6_EqualityAtBounds ==
    triton_version # <<>> =>
        /\ VersionEQ(triton_version[1], VStr(<<3, 0, 0>>, "final")) =>
              /\ ~Logged("warning", "triton_not_tested")
              /\ ~CapabilityReported
        /\ VersionEQ(triton_version[1], VStr(<<2, 3, 1>>, "final")) =>
              /\ ~Logged("warning", "triton_not_tested")
              /\ AtCapabilityCheck => (CapabilityReported <=> device_cap[1] <= 7)

\* Witness of C6: compiler 3.0.0 on a capability-7 device passes the whole
\* probe without a warning.
C6_Witness ==
    /\ triton_version = <<VStr(<<3, 0, 0>>, "final")>>
    /\ device_cap = <<7>>
    /\ status = "returned"
    /\ ~Logged("warning", "triton_not_tested")

\* The library-version check parsed the installed version.
AfterLibraryVersionCheck ==
    /\ "__check_transformers_version" \in Range(started)
    /\ trans_version # <<>>

\* C7: the library-version check warns iff installed < 4.33.0 or installed >
\* 4.44.1 (silent at both bounds); it is never fatal, and the config load is
\* the next sub-check either way.
C7_LibraryVersionRange ==
    AfterLibraryVersionCheck =>
        LET v == trans_version[1]
        IN  /\ Logged("warning", "transformers_out_of_range") <=>
                  (\/ VersionLT(v, VStr(<<4, 33, 0>>, "final"))
                   \/ VersionGT(v, VStr(<<4, 44, 1>>, "final")))
            /\ v \in {VStr(<<4, 33, 0>>, "final"), VStr(<<4, 44, 1>>, "final")} =>
                  ~Logged("warning", "transformers_out_of_range")
            /\ Len(SubchecksStarted) = 1 =>
                  (reports = <<>> /\ status = "running" /\ pc = "__check_config")

\* Witness of C7: an installed version above the range warned and the config
\* load started.
C7_Witness ==
    /\ AfterLibraryVersionCheck
    /\ VersionGT(trans_version[1], VStr(<<4, 44, 1>>, "final"))
    /\ Logged("warning", "transformers_out_of_range")
    /\ "__check_config" \in Range(started)

\* The dtype check was the last sub-check to start, derived bfloat16 and was
\* told whether the device supports it.
AtBf16Check ==
    /\ Len(started) > 0
    /\ Last(started) = "__check_model_dtype_support"
    /\ pc # "__check_model_dtype_support"
    /\ model_dtype = <<"bfloat16">>
    /\ supported # <<>>

\* C8: with bfloat16 derived, a device reported as not supporting it ends
\* the check in a fatal diagnostic and exit(1); a device reported as
\* supporting it gets no diagnostic and the quantization check is next.
C8_Bf16Support ==
    AtBf16Check =>
        /\ supported = <<FALSE>> =>
              /\ FatalDiagnostic
              /\ reports[1].mod_name = "Model"
              /\ "device_does_not_support" \in Range(reports[1].message.parts)
        /\ supported = <<TRUE>> =>
              /\ reports = <<>>
              /\ status = "running"
              /\ pc = "check_awq"

\* Witness of C8: bfloat16 on a device without it, fatal.
C8_Witness ==
    /\ AtBf16Check
    /\ supported = <<FALSE>>
    /\ FatalDiagnostic

\* C9: every config-load failure of the adapter probe is fatal, and its
\* remediation text holds the keyword-stripping hint iff the failure's
\* message contains 'got an unexpected keyword argument'.
C9_AdapterHint ==
    (Len(started) > 0 /\ Last(started) = "check_adapter" /\ caught # <<>>) =>
        /\ FatalDiagnostic
        /\ "remove_unexpected_keywords" \in Range(reports[1].message.parts)
              <=> Contains(<<"unexpected", "keyword">>, FailureText(Last(caught)))

\* C10: every failure of the kernel-compiler probe's version check or smoke
\* test is reported and terminates the process, with the driver/compiler
\* mismatch message iff the failure text contains 'device kernel image is
\* invalid' and the generic message otherwise.
C10_TritonRemediation ==
    (Len(started) > 0 /\ Last(started) = "check_env_triton" /\ caught # <<>>) =>
        /\ FatalDiagnostic
        /\ IF Contains(<<"image", "invalid">>, FailureText(Last(caught)))
           THEN reports[1].message.parts = <<"driver_compiler_mismatch">>
           ELSE reports[1].message.parts = <<"verify_your_environment">>

====
